---- MODULE Spec2Model ----
(***************************************************************************)
(* The job-execution core of the GIS Automation Hub:                       *)
(*   - the backend Job Registry of public/node-backend/server.js           *)
(*     (POST /execute, GET /jobs/:jobId, runPythonJob, sendCallback);      *)
(*   - the client Execution Simulator (useExecutionSimulator) and the      *)
(*     pages that drive it;                                                *)
(*   - the orchestration functions execute-script and job-callback over    *)
(*     the persisted job_history table;                                    *)
(*   - the directory listing of POST /browse.                              *)
(* Text is a sequence of one-character strings, so that splitting on line  *)
(* terminators, trimming and JSON parsing are computed, not assumed.       *)
(***************************************************************************)
EXTENDS Integers, Sequences, FiniteSets, TLC

VARIABLES
    jobs,        \* the registry Map: job id -> index of its job object in heap
    heap,        \* the job objects, in allocation order
    immediates,  \* queued setImmediate callbacks (runPythonJob calls not yet run)
    procs,       \* the child processes spawned so far: their handlers' closures,
                 \* and the text each has written to its stdout and its stderr
    relays,      \* the invocations of sendCallback so far
    responses,   \* the HTTP responses of POST /execute, in order
    now,         \* the wall clock read by new Date()
    crashed,     \* the server process was terminated by an uncaught exception
    steps,       \* number of requests and callbacks the server has run so far
    simStatus,   \* useExecutionSimulator: status state
    simLogs,     \* useExecutionSimulator: logs state
    execs,       \* the calls of execute so far (their closures and positions)
    simIds,      \* number of ids drawn from crypto.randomUUID()
    simLast,     \* the simulator call or continuation that ran last
    results,     \* the page's results state (useState next to the simulator)
    pageConfig,  \* the page's config state (useLocalStorage): the two paths
    job_history, \* the rows of the persisted job_history table
    executeScript, \* the execute-script handler: its position and its locals
    forwards,    \* the requests execute-script has sent to the Job Registry
    callbacks,   \* the job-callback handlers so far: their positions and locals
    replies,     \* the HTTP responses of execute-script
    listing      \* the last request to POST /browse and its response

vars == <<jobs, heap, immediates, procs, relays, responses, now, crashed, steps,
          simStatus, simLogs, execs, simIds, simLast, results, pageConfig,
          job_history, executeScript, forwards, callbacks, replies, listing>>

regVars == <<jobs, heap, immediates, procs, relays, responses, now, crashed, steps>>

simVars == <<simStatus, simLogs, execs, simIds, simLast>>

orchVars == <<job_history, executeScript, forwards, callbacks, replies>>

\* The state of a page that uses the simulator.
pageVars == <<results, pageConfig>>

\* What a step of the job registry leaves alone.
nonRegVars == <<simVars, pageVars, orchVars, listing>>

\* What a step of the simulator itself leaves alone.
nonSimVars == <<regVars, orchVars, listing>>

----
\* Bounds of the model.

\* Requests and callbacks run by the server in one behaviour.
MaxSteps == 6

\* POST /execute requests in one behaviour.
MaxSubmits == 2

\* Ticks of the clock in one behaviour.
MaxTime == 1

\* Calls of the simulator's execute in one behaviour.
MaxExecs == 2

----
\* Text.

Whitespace == {" ", "\n", "\r", "\t"}

Digits == {"7"}

RECURSIVE SplitFrom(_, _)
SplitFrom(s, cur) ==
    IF s = <<>> THEN <<cur>>
    ELSE IF Head(s) = "\n" THEN <<cur>> \o SplitFrom(Tail(s), <<>>)
    ELSE SplitFrom(Tail(s), Append(cur, Head(s)))

\* String.prototype.split('\n')
SplitLines(s) == SplitFrom(s, <<>>)

RECURSIVE TrimStart(_)
TrimStart(s) ==
    IF s # <<>> /\ Head(s) \in Whitespace THEN TrimStart(Tail(s)) ELSE s

RECURSIVE TrimEnd(_)
TrimEnd(s) ==
    IF s # <<>> /\ s[Len(s)] \in Whitespace
    THEN TrimEnd(SubSeq(s, 1, Len(s) - 1)) ELSE s

\* String.prototype.trim()
Trim(s) == TrimEnd(TrimStart(s))

\* lines.filter(l => l.trim())
NonBlank(lines) == SelectSeq(lines, LAMBDA l : Trim(l) # <<>>)

\* The entry serialised by the text {E}: E abbreviates the three members
\* "timestamp", "type" and "message" of a well-formed log line.
WireEntry == [timestamp |-> "iso-8601", type |-> "success", message |-> <<"o", "k">>]

\* A parser that rejects every line.
JSONParseThrowing(line) == [ok |-> FALSE, value |-> [object |-> "SyntaxError"]]

\* JSON.parse(line): the parsed value, or the failure that makes it throw.
JSONParse(line) ==
    LET t == Trim(line) IN
    IF t = <<"{", "E", "}">> THEN [ok |-> TRUE, value |-> WireEntry]
    ELSE IF t = <<"{", "}">> THEN [ok |-> TRUE, value |-> [object |-> "empty"]]
    ELSE IF t # <<>> /\ \A i \in 1..Len(t) : t[i] \in Digits
         THEN [ok |-> TRUE, value |-> [number |-> t]]
    ELSE [ok |-> FALSE, value |-> [object |-> "SyntaxError"]]

----
\* The Job Registry: public/node-backend/server.js.

\* A request member that is absent (undefined in the script).
Missing == "undefined"

\* job.completedAt before the close handler has written it.
Undefined == 0 - 1

\* new Date().toISOString() of a log entry: the text of an instant.  No code
\* reads an entry's timestamp back, so the instant itself is not kept.
Iso(t) == "iso-8601"

\* The request bodies POST /execute is driven with.
SuppliedIds == {"j1"}

JobTypes == {"comparison", "bogus", "constructor"}

CallbackUrls == {"http://store/job-callback"}

Configs == {"config"}

ExitCodes == {0, 2}

StdoutChunks ==
    { <<"h", "e">>,
      <<"l", "l", "o", "\n">>,
      <<"{", "E", "}", "\n">>,
      <<"7", "\n", " ", "\n">> }

StderrChunks ==
    { <<"b", "a", "d", "\n">>,
      <<"b", "a", "d", "\n", "x", "\n">> }

\* uuidv4(): the n-th generated id; never equal to a supplied one.
uuidv4(n) == <<"uuid", ToString(n)>>

Generated == {i \in 1..Len(heap) : heap[i].id[1] = "uuid"}

\* A lookup that falls back to a default script for any other job type.
scriptMapWithDefault(jobType) ==
    IF jobType = "gdb_extraction" THEN "gdb_extraction.py"
    ELSE IF jobType = "sde_conversion" THEN "sde_conversion.py"
    ELSE "comparison.py"

\* scriptMap[jobType]: the own members of the literal, and what a member
\* inherited from Object.prototype yields.
scriptMap(jobType) ==
    CASE jobType = "gdb_extraction" -> "gdb_extraction.py"
      [] jobType = "sde_conversion" -> "sde_conversion.py"
      [] jobType = "comparison" -> "comparison.py"
      [] jobType \in {"constructor", "toString", "valueOf"} -> "[Function]"
      [] OTHER -> Missing

LogEntry(t, type, message) ==
    [timestamp |-> Iso(t), type |-> type, message |-> message]

\* A lookup that forgets the jobs that have finished.
getStatusOfUnfinished(jobId) ==
    IF jobId \in DOMAIN jobs /\ heap[jobs[jobId]].status = "running"
    THEN [code |-> 200, job |-> heap[jobs[jobId]]]
    ELSE [code |-> 404, job |-> [error |-> "Job not found"]]

\* GET /jobs/:jobId
getStatus(jobId) ==
    IF jobId \in DOMAIN jobs
    THEN [code |-> 200, job |-> heap[jobs[jobId]]]
    ELSE [code |-> 404, job |-> [error |-> "Job not found"]]

\* The synchronous part of sendCallback: nothing without a callbackUrl,
\* else one fetch whose body is serialised at the call.
sendCallback(callbackUrl, jobId, status, logs, p) ==
    Append(relays, [jobId |-> jobId, status |-> status, logs |-> logs, proc |-> p,
                    state |-> IF callbackUrl = Missing THEN "nourl" ELSE "inflight"])

\* The server runs one more request or callback.
Step ==
    /\ ~crashed
    /\ steps < MaxSteps
    /\ steps' = steps + 1

\* A validation that looks at the job type alone.
invalidRequestByTypeOnly(jobType, config) == jobType = Missing

\* !jobType || !config
invalidRequest(jobType, config) == jobType = Missing \/ config = Missing

\* POST /execute
Execute(jobId, jobType, config, callbackUrl) ==
    /\ Step
    /\ Len(responses) < MaxSubmits
    /\ IF invalidRequest(jobType, config)
       THEN /\ responses' = Append(responses,
                   [code |-> 400, jobId |-> Missing, status |-> Missing,
                    error |-> <<"jobType and config are required">>])
            /\ UNCHANGED <<jobs, heap, immediates>>
       ELSE LET id == IF jobId # Missing THEN <<"body", jobId>>
                      ELSE uuidv4(Cardinality(Generated) + 1)
                job == [id |-> id, jobType |-> jobType, config |-> config,
                        status |-> "running",
                        logs |-> <<LogEntry(now, "info", <<"Job started">>)>>,
                        startedAt |-> now, completedAt |-> Undefined]
            IN  /\ heap' = Append(heap, job)
                /\ jobs' = [j \in DOMAIN jobs \cup {id} |->
                               IF j = id THEN Len(heap) + 1 ELSE jobs[j]]
                /\ immediates' = Append(immediates,
                       [jobId |-> id, jobType |-> jobType, callbackUrl |-> callbackUrl])
                /\ responses' = Append(responses,
                       [code |-> 200, jobId |-> id, status |-> "running"])
    /\ UNCHANGED <<procs, relays, now, crashed>>
    /\ UNCHANGED nonRegVars

\* A check of the script file that is skipped.
existsSyncSkipped(onDisk) == TRUE

\* fs.existsSync(scriptPath), for a script file that is or is not on disk.
existsSync(onDisk) == onDisk

\* The child process object spawn returns, with the closures of its handlers.
ChildProcess(o, call, scriptName, onDisk, state) ==
    [job |-> o, jobId |-> call.jobId, callbackUrl |-> call.callbackUrl,
     script |-> scriptName, scriptOnDisk |-> onDisk, state |-> state,
     written |-> <<>>, errors |-> <<>>, exitCode |-> Undefined]

\* runPythonJob, run from the setImmediate queue.  existsSync and the outcome
\* of spawn are the environment's.
runPythonJob(scriptExists, spawned, fatal) ==
    /\ Step
    /\ immediates # <<>>
    /\ LET call == Head(immediates)
           o == jobs[call.jobId]
           scriptName == scriptMap(call.jobType)
           fail(message) ==
               LET logs == Append(heap[o].logs, LogEntry(now, "error", message))
               IN  /\ heap' = [heap EXCEPT ![o].status = "failed", ![o].logs = logs]
                   /\ relays' = sendCallback(call.callbackUrl, call.jobId, "failed", logs, 0)
                   /\ UNCHANGED <<procs, crashed>>
       IN  /\ immediates' = Tail(immediates)
           /\ IF call.jobId \notin DOMAIN jobs
              THEN UNCHANGED <<heap, procs, relays, crashed>>
              ELSE IF scriptName = Missing
              THEN fail(<<"Unknown job type: ", call.jobType>>)
              ELSE IF scriptName = "[Function]"
              THEN \* path.join throws a TypeError: the promise of runPythonJob
                   \* is rejected and nothing handles it.
                   /\ crashed' = fatal
                   /\ UNCHANGED <<heap, procs, relays>>
              ELSE IF ~existsSync(scriptExists)
              THEN fail(<<"Script not found: ", scriptName>>)
              ELSE /\ heap' = [heap EXCEPT ![o].logs = Append(@,
                                  LogEntry(now, "info", <<"Executing ", scriptName, "...">>))]
                   /\ IF spawned
                      THEN /\ procs' = Append(procs,
                                  ChildProcess(o, call, scriptName, scriptExists, "running"))
                           /\ crashed' = crashed
                      ELSE \* the child emits 'error', which has no listener:
                           \* the emit throws and nothing catches it
                           /\ procs' = Append(procs,
                                  ChildProcess(o, call, scriptName, scriptExists, "error"))
                           /\ crashed' = TRUE
                   /\ relays' = relays
    /\ UNCHANGED <<jobs, responses, now>>
    /\ UNCHANGED nonRegVars

RECURSIVE PushLines(_, _, _)
\* for (const line of lines) { try { push(JSON.parse(line)) } catch { push(info) } }
PushLines(logs, lines, t) ==
    IF lines = <<>> THEN logs
    ELSE LET parsed == JSONParse(Head(lines))
             entry == IF parsed.ok THEN parsed.value
                      ELSE LogEntry(t, "info", Head(lines))
         IN  PushLines(Append(logs, entry), Tail(lines), t)

\* A stdout handler that writes the lines to the logs of every job.
OnStdoutOfAllJobs(p, data) ==
    /\ Step
    /\ procs[p].state = "running"
    /\ LET lines == NonBlank(SplitLines(data))
       IN  heap' = [o \in 1..Len(heap) |->
                       [heap[o] EXCEPT !.logs = PushLines(@, lines, now)]]
    /\ procs' = [procs EXCEPT ![p].written = @ \o data]
    /\ UNCHANGED <<jobs, immediates, relays, responses, now, crashed>>
    /\ UNCHANGED nonRegVars

\* pythonProcess.stdout.on('data')
OnStdout(p, data) ==
    /\ Step
    /\ procs[p].state = "running"
    /\ LET o == procs[p].job
           lines == NonBlank(SplitLines(data))
       IN  heap' = [heap EXCEPT ![o].logs = PushLines(@, lines, now)]
    /\ procs' = [procs EXCEPT ![p].written = @ \o data]
    /\ UNCHANGED <<jobs, immediates, relays, responses, now, crashed>>
    /\ UNCHANGED nonRegVars

\* pythonProcess.stderr.on('data')
OnStderr(p, data) ==
    /\ Step
    /\ procs[p].state = "running"
    /\ LET o == procs[p].job
       IN  heap' = [heap EXCEPT ![o].logs = Append(@, LogEntry(now, "error", data))]
    /\ procs' = [procs EXCEPT ![p].errors = @ \o data]
    /\ UNCHANGED <<jobs, immediates, relays, responses, now, crashed>>
    /\ UNCHANGED nonRegVars

\* A close handler that does not look at the exit code.
closeStatusIgnoringCode(code) == "success"

\* The status the close handler sets for an exit code.
closeStatus(code) == IF code = 0 THEN "success" ELSE "failed"

\* The entry the close handler pushes for an exit code.
closeEntry(t, code) ==
    IF code = 0
    THEN LogEntry(t, "info", <<"Job completed successfully">>)
    ELSE LogEntry(t, "error", <<"Job failed with exit code ", ToString(code)>>)

\* pythonProcess.on('close')
OnClose(p, code) ==
    /\ Step
    /\ procs[p].state = "running"
    /\ LET o == procs[p].job
           status == closeStatus(code)
           logs == Append(heap[o].logs, closeEntry(now, code))
       IN  /\ heap' = [heap EXCEPT ![o].completedAt = now, ![o].status = status,
                                   ![o].logs = logs]
           /\ relays' = sendCallback(procs[p].callbackUrl, procs[p].jobId, status, logs, p)
    /\ procs' = [procs EXCEPT ![p].state = "closed", ![p].exitCode = code]
    /\ UNCHANGED <<jobs, immediates, responses, now, crashed>>
    /\ UNCHANGED nonRegVars

\* A relay that sends the callback again when the delivery failed.
FetchSettlesWithRetry(r, outcome) ==
    /\ Step
    /\ relays[r].state = "inflight"
    /\ relays' = IF outcome = "2xx"
                 THEN [relays EXCEPT ![r].state = outcome]
                 ELSE Append([relays EXCEPT ![r].state = outcome],
                             [relays[r] EXCEPT !.state = "inflight"])
    /\ UNCHANGED <<jobs, heap, immediates, procs, responses, now, crashed>>
    /\ UNCHANGED nonRegVars

\* A relay that marks the job failed when the delivery failed.
FetchSettlesFailingJob(r, outcome) ==
    /\ Step
    /\ relays[r].state = "inflight"
    /\ relays' = [relays EXCEPT ![r].state = outcome]
    /\ heap' = IF outcome = "2xx" THEN heap
               ELSE [heap EXCEPT ![jobs[relays[r].jobId]].status = "failed",
                                 ![jobs[relays[r].jobId]].logs =
                                     Append(@, LogEntry(now, "error", <<"Callback failed">>))]
    /\ UNCHANGED <<jobs, immediates, procs, responses, now, crashed>>
    /\ UNCHANGED nonRegVars

\* The fetch of sendCallback settles: a 2xx or a non-2xx response resolves it,
\* a network error rejects it and the catch logs it to the console.
FetchSettles(r, outcome) ==
    /\ Step
    /\ relays[r].state = "inflight"
    /\ relays' = [relays EXCEPT ![r].state = outcome]
    /\ UNCHANGED <<jobs, heap, immediates, procs, responses, now, crashed>>
    /\ UNCHANGED nonRegVars

FetchOutcomes == {"2xx", "non2xx", "neterror"}

\* Time passes between two reads of the clock.
Tick ==
    /\ ~crashed
    /\ now < MaxTime
    /\ now' = now + 1
    /\ UNCHANGED <<jobs, heap, immediates, procs, relays, responses, crashed, steps>>
    /\ UNCHANGED nonRegVars

Init ==
    /\ jobs = <<>>
    /\ heap = <<>>
    /\ immediates = <<>>
    /\ procs = <<>>
    /\ relays = <<>>
    /\ responses = <<>>
    /\ now = 0
    /\ crashed = FALSE
    /\ steps = 0
    /\ simStatus = "pending"
    /\ simLogs = <<>>
    /\ execs = <<>>
    /\ simIds = 0
    /\ simLast = "none"
    /\ results = "empty"
    /\ pageConfig = [sourceGdbPath |-> "", outputFolder |-> ""]
    /\ job_history = <<>>
    /\ executeScript = [pc |-> "idle", job |-> [id |-> 0, logs |-> <<>>],
                        pythonBackendUrl |-> "undefined"]
    /\ forwards = <<>>
    /\ callbacks = <<>>
    /\ replies = <<>>
    /\ listing = [code |-> 0, type |-> "undefined", dirents |-> <<>>, items |-> <<>>]

Next ==
    \/ \E jobId \in SuppliedIds \cup {Missing}, jobType \in JobTypes \cup {Missing},
          config \in Configs \cup {Missing}, callbackUrl \in CallbackUrls \cup {Missing} :
          Execute(jobId, jobType, config, callbackUrl)
    \/ \E scriptExists \in BOOLEAN, spawned \in BOOLEAN, fatal \in BOOLEAN :
          runPythonJob(scriptExists, spawned, fatal)
    \/ \E p \in 1..Len(procs), data \in StdoutChunks : OnStdout(p, data)
    \/ \E p \in 1..Len(procs), data \in StderrChunks : OnStderr(p, data)
    \/ \E p \in 1..Len(procs), code \in ExitCodes : OnClose(p, code)
    \/ \E r \in 1..Len(relays), outcome \in FetchOutcomes : FetchSettles(r, outcome)

Spec == Init /\ [][Next]_vars

\* One client that submits a single job, and the clock advancing between the
\* server's steps.
ClockNext ==
    \/ /\ responses = <<>>
       /\ \E jobId \in SuppliedIds \cup {Missing}, jobType \in JobTypes \cup {Missing},
             config \in Configs \cup {Missing}, callbackUrl \in CallbackUrls \cup {Missing} :
             Execute(jobId, jobType, config, callbackUrl)
    \/ \E scriptExists \in BOOLEAN, spawned \in BOOLEAN, fatal \in BOOLEAN :
          runPythonJob(scriptExists, spawned, fatal)
    \/ \E p \in 1..Len(procs), data \in StdoutChunks : OnStdout(p, data)
    \/ \E p \in 1..Len(procs), data \in StderrChunks : OnStderr(p, data)
    \/ \E p \in 1..Len(procs), code \in ExitCodes : OnClose(p, code)
    \/ \E r \in 1..Len(relays), outcome \in FetchOutcomes : FetchSettles(r, outcome)
    \/ Tick

ClockSpec == Init /\ [][ClockNext]_vars

----
\* The client Execution Simulator: useExecutionSimulator.

\* The log scripts execute is called with: (type, message, delay) triples.
Triple(type, message, delay) == [type |-> type, message |-> message, delay |-> delay]

SimScripts ==
    { <<>>,
      <<Triple("info", "Connecting", 300)>>,
      <<Triple("info", "Connecting", 300), Triple("success", "Done", 500)>>,
      <<Triple("error", "Boom", 300)>>,
      <<Triple("warning", "Slow", 300), Triple("error", "Boom", 500),
        Triple("info", "After", 400)>> }

\* An addLog that puts the new entry in front.
addLogInFront(logs, id, type, message) ==
    <<[id |-> id, timestamp |-> "Date", type |-> type, message |-> message]>> \o logs

\* addLog: setLogs(prev => [...prev, entry]) with a fresh id.
addLog(logs, id, type, message) ==
    Append(logs, [id |-> id, timestamp |-> "Date", type |-> type, message |-> message])

\* Some earlier call of execute still waits on a timer.
InFlight == {e \in 1..Len(execs) : execs[e].pc = "timer"}

\* Another call ran: no call of execute has been alone since it began.
Disturbed == [e \in 1..Len(execs) |-> [execs[e] EXCEPT !.alone = FALSE]]

\* An execute that sets the status but leaves the earlier logs in place.
executeKeepingLogs(simulatedLogs) ==
    /\ Len(execs) < MaxExecs
    /\ simLogs' = simLogs
    /\ IF simulatedLogs = <<>>
       THEN /\ simStatus' = "success"
            /\ execs' = Append(Disturbed,
                   [script |-> simulatedLogs, i |-> 0, pc |-> "resolved",
                    result |-> "true", alone |-> InFlight = {}])
       ELSE /\ simStatus' = "running"
            /\ execs' = Append(Disturbed,
                   [script |-> simulatedLogs, i |-> 0, pc |-> "timer",
                    result |-> "pending", alone |-> InFlight = {}])
    /\ simLast' = "execute"
    /\ UNCHANGED simIds
    /\ UNCHANGED nonSimVars

\* execute(simulatedLogs), up to its first await: an empty script runs the
\* loop zero times and resolves at once.
execute(simulatedLogs) ==
    /\ Len(execs) < MaxExecs
    /\ simLogs' = <<>>
    /\ IF simulatedLogs = <<>>
       THEN /\ simStatus' = "success"
            /\ execs' = Append(Disturbed,
                   [script |-> simulatedLogs, i |-> 0, pc |-> "resolved",
                    result |-> "true", alone |-> InFlight = {}])
       ELSE /\ simStatus' = "running"
            /\ execs' = Append(Disturbed,
                   [script |-> simulatedLogs, i |-> 0, pc |-> "timer",
                    result |-> "pending", alone |-> InFlight = {}])
    /\ simLast' = "execute"
    /\ UNCHANGED simIds
    /\ UNCHANGED nonSimVars

\* A loop body that records an error entry and carries on with the script.
TimerFiresPastError(e) ==
    /\ execs[e].pc = "timer"
    /\ LET log == execs[e].script[execs[e].i + 1]
           last == execs[e].i + 1 = Len(execs[e].script)
       IN  /\ simLogs' = addLog(simLogs, simIds + 1, log.type, log.message)
           /\ simIds' = simIds + 1
           /\ IF last
              THEN /\ simStatus' = IF log.type = "error" THEN "failed" ELSE "success"
                   /\ execs' = [execs EXCEPT ![e].i = @ + 1, ![e].pc = "resolved",
                                             ![e].result = IF log.type = "error"
                                                           THEN "false" ELSE "true"]
              ELSE /\ simStatus' = IF log.type = "error" THEN "failed" ELSE simStatus
                   /\ execs' = [execs EXCEPT ![e].i = @ + 1]
    /\ simLast' = "timer"
    /\ UNCHANGED nonSimVars

\* The timer of call e fires: the loop body for the next triple, and the
\* code after the loop when that was the last one.
TimerFires(e) ==
    /\ execs[e].pc = "timer"
    /\ LET log == execs[e].script[execs[e].i + 1]
           last == execs[e].i + 1 = Len(execs[e].script)
       IN  /\ simLogs' = addLog(simLogs, simIds + 1, log.type, log.message)
           /\ simIds' = simIds + 1
           /\ IF log.type = "error"
              THEN /\ simStatus' = "failed"
                   /\ execs' = [execs EXCEPT ![e].i = @ + 1, ![e].pc = "resolved",
                                             ![e].result = "false"]
              ELSE IF last
              THEN /\ simStatus' = "success"
                   /\ execs' = [execs EXCEPT ![e].i = @ + 1, ![e].pc = "resolved",
                                             ![e].result = "true"]
              ELSE /\ simStatus' = simStatus
                   /\ execs' = [execs EXCEPT ![e].i = @ + 1]
    /\ simLast' = "timer"
    /\ UNCHANGED nonSimVars

\* A reset that also abandons the calls of execute still waiting on a timer.
resetCancelling ==
    /\ simStatus' = "pending"
    /\ simLogs' = <<>>
    /\ execs' = [e \in 1..Len(execs) |->
                   [execs[e] EXCEPT !.alone = FALSE, !.pc = "resolved",
                                    !.result = IF @ = "pending" THEN "false" ELSE @]]
    /\ simLast' = "reset"
    /\ UNCHANGED simIds
    /\ UNCHANGED nonSimVars

\* A reset that puts the status back and leaves the logs.
resetStatusOnly ==
    /\ simStatus' = "pending"
    /\ simLogs' = simLogs
    /\ execs' = Disturbed
    /\ simLast' = "reset"
    /\ UNCHANGED simIds
    /\ UNCHANGED nonSimVars

\* reset()
reset ==
    /\ simStatus' = "pending"
    /\ simLogs' = <<>>
    /\ execs' = Disturbed
    /\ simLast' = "reset"
    /\ UNCHANGED simIds
    /\ UNCHANGED nonSimVars

SimNext ==
    \/ \E simulatedLogs \in SimScripts : execute(simulatedLogs) /\ UNCHANGED pageVars
    \/ \E e \in 1..Len(execs) : TimerFires(e) /\ UNCHANGED pageVars
    \/ reset /\ UNCHANGED pageVars

SimSpec == Init /\ [][SimNext]_vars

\* The simulator with its timers: a timeout that has been set fires.
SimLiveSpec ==
    SimSpec /\ \A e \in 1..MaxExecs :
                  WF_vars(e \in 1..Len(execs) /\ TimerFires(e) /\ UNCHANGED pageVars)

----
\* Properties of the Job Registry.

IsPrefix(s, t) == Len(s) <= Len(t) /\ SubSeq(t, 1, Len(s)) = s

Last(s) == s[Len(s)]

TerminalStatuses == {"success", "failed"}

\* The job types that are own members of scriptMap.
KnownJobTypes == {"gdb_extraction", "sde_conversion", "comparison"}

\* C1: for every job id, once getStatus reports success or failed it reports
\* that same status in every later state, whatever is submitted (also with the
\* same jobId) and whatever the processes and the relay do.
C1_TerminalStatusIsFinal ==
    [][\A j \in DOMAIN jobs :
          getStatus(j).job.status \in TerminalStatuses
              => getStatus(j)'.job.status = getStatus(j).job.status]_vars

\* C4: for every job id, the logs getStatus reports after a step have the logs
\* it reported before the step as a prefix: no entry is removed, replaced or
\* reordered.
C4_LogsAppendOnly ==
    [][\A j \in DOMAIN jobs :
          IsPrefix(getStatus(j).job.logs, getStatus(j)'.job.logs)]_vars

\* The members every object literal inherits from Object.prototype, among the
\* job types submitted.
InheritedMembers == {"constructor", "toString", "valueOf"}

\* The n-th accepted response answers the request that allocated heap[n].
Accepted == SelectSeq(responses, LAMBDA r : r.code = 200)

Range(s) == {s[i] : i \in 1..Len(s)}

\* A step in which the head of the setImmediate queue runs.
RunsHead == immediates # <<>> /\ immediates' = Tail(immediates)

Unterminated(text) == Last(SplitLines(text))

\* C3: a stdout chunk that ends no line creates no entry, and the chunk that
\* completes a line held over from an earlier chunk adds exactly one entry,
\* whose message is the assembled line.
C3_PartialLinesBuffered ==
    [][\A p \in 1..Len(procs) :
          LET o == procs[p].job
              before == procs[p].written
              after == procs'[p].written
              data == SubSeq(after, Len(before) + 1, Len(after))
              held == Unterminated(before)
          IN  data # <<>>
                  => /\ "\n" \notin Range(data) => heap'[o].logs = heap[o].logs
                     /\ (/\ held # <<>>
                         /\ Last(data) = "\n"
                         /\ "\n" \notin Range(SubSeq(data, 1, Len(data) - 1)))
                            => /\ Len(heap'[o].logs) = Len(heap[o].logs) + 1
                               /\ Last(heap'[o].logs).message
                                      = held \o SubSeq(data, 1, Len(data) - 1)]_vars

\* A step in which the close handler of process p runs.
Closes(p) == procs[p].state = "running" /\ procs'[p].state = "closed"

\* A step in which the fetch of some relay settles.
Settles == \E r \in 1..Len(relays) :
               relays[r].state = "inflight" /\ relays'[r].state # "inflight"

\* C8: the step in which a process exits sets completedAt and appends one final
\* entry; with code 0 the status becomes success and the entry is informational,
\* with any other code the status becomes failed and the entry is an error
\* naming the code.
C8_ExitFinalisesJob ==
    [][\A p \in 1..Len(procs) :
          Closes(p)
              => LET o == procs[p].job
                     code == procs'[p].exitCode
                     final == Last(heap'[o].logs)
                 IN  /\ heap'[o].completedAt # Undefined
                     /\ Len(heap'[o].logs) = Len(heap[o].logs) + 1
                     /\ IsPrefix(heap[o].logs, heap'[o].logs)
                     /\ IF code = 0
                        THEN heap'[o].status = "success" /\ final.type = "info"
                        ELSE /\ heap'[o].status = "failed"
                             /\ final.type = "error"
                             /\ ToString(code) \in Range(final.message)]_vars

\* C8 witness: a process has exited with a non-zero code and its job is failed,
\* completed, and ends with the error entry naming the code.
C8_Witness ==
    \E p \in 1..Len(procs) :
        /\ procs[p].state = "closed"
        /\ procs[p].exitCode = 2
        /\ heap[procs[p].job].status = "failed"
        /\ heap[procs[p].job].completedAt # Undefined
        /\ Last(heap[procs[p].job].logs).message = <<"Job failed with exit code ", "2">>

RelaysOf(p) == {r \in 1..Len(relays) : relays[r].proc = p}

\* C9: each process that has exited has exactly one invocation of the relay and
\* a running one has none; that invocation is made in the step of the exit and
\* carries the job's id, its status and all of its logs as that step leaves
\* them; a fetch that settles, delivered or not, adds no invocation and
\* terminates nothing.
C9_OneRelayPerExit ==
    /\ [](\A p \in 1..Len(procs) :
              Cardinality(RelaysOf(p)) = IF procs[p].state = "closed" THEN 1 ELSE 0)
    /\ [][\A p \in 1..Len(procs) :
              Closes(p)
                  => /\ Len(relays') = Len(relays) + 1
                     /\ Last(relays').proc = p
                     /\ Last(relays').jobId = procs[p].jobId
                     /\ Last(relays').status = heap'[procs[p].job].status
                     /\ Last(relays').logs = heap'[procs[p].job].logs]_vars
    /\ [][Settles => Len(relays') = Len(relays) /\ crashed' = crashed]_vars

\* C9 witness: the one callback of an exited process failed to be delivered and
\* the server runs on.
C9_Witness ==
    \E r \in 1..Len(relays) :
        /\ relays[r].proc > 0
        /\ relays[r].state \in {"non2xx", "neterror"}
        /\ RelaysOf(relays[r].proc) = {r}
        /\ ~crashed

----
\* Properties of the Execution Simulator.

\* The 1-based index of the first error-typed triple, 0 when there is none.
FirstError(script) ==
    IF \E k \in 1..Len(script) : script[k].type = "error"
    THEN CHOOSE k \in 1..Len(script) :
             /\ script[k].type = "error"
             /\ \A m \in 1..(k - 1) : script[m].type # "error"
    ELSE 0

\* The number of triples execute handles before it returns.
Handled(script) == IF FirstError(script) = 0 THEN Len(script) ELSE FirstError(script)

\* C5: each call of execute appends one entry per triple, in the script's
\* order: an entry is appended only by a waiting call, which appends exactly the
\* entry of its next triple; a call still waits exactly while it has appended
\* no error entry and triples remain, and once it has appended an error entry
\* or its last triple it has returned and appends nothing more.
C5_OneEntryPerTriple ==
    /\ [](\A e \in 1..Len(execs) :
              /\ execs[e].i <= Handled(execs[e].script)
              /\ execs[e].pc = "timer" <=> execs[e].i < Handled(execs[e].script)
              /\ execs[e].pc = "resolved" <=> execs[e].i = Handled(execs[e].script))
    /\ [][(\/ Len(simLogs') > Len(simLogs)
           \/ \E e \in 1..Len(execs) : execs'[e].i # execs[e].i)
              => \E e \in 1..Len(execs) :
                     /\ execs[e].pc = "timer"
                     /\ execs'[e].i = execs[e].i + 1
                     /\ \A f \in 1..Len(execs) : f # e => execs'[f].i = execs[f].i
                     /\ Len(simLogs') = Len(simLogs) + 1
                     /\ IsPrefix(simLogs, simLogs')
                     /\ Last(simLogs').type = execs[e].script[execs[e].i + 1].type
                     /\ Last(simLogs').message
                            = execs[e].script[execs[e].i + 1].message]_vars

\* C5 witness: a call has returned after the error entry in second place of a
\* script of three, and the logs end with that entry.
C5_Witness ==
    \E e \in 1..Len(execs) :
        /\ Len(execs[e].script) = 3
        /\ execs[e].pc = "resolved"
        /\ execs[e].i = 2
        /\ Len(simLogs) = 2
        /\ simLogs[1].type = "warning"
        /\ simLogs[2].type = "error"

\* C6: a call of execute that ran alone (no other call in flight when it
\* began, no execute or reset since) and has returned: without an error triple
\* it returned true, the status is success and there are as many logs as
\* triples; otherwise it returned false, the status is failed and the number of
\* logs is the 1-based index of the first error triple.
C6_AloneOutcome ==
    \A e \in 1..Len(execs) :
        (execs[e].pc = "resolved" /\ execs[e].alone)
            => IF FirstError(execs[e].script) = 0
               THEN /\ execs[e].result = "true"
                    /\ simStatus = "success"
                    /\ Len(simLogs) = Len(execs[e].script)
               ELSE /\ execs[e].result = "false"
                    /\ simStatus = "failed"
                    /\ Len(simLogs) = FirstError(execs[e].script)

\* C6 witness: the second call of execute ran alone on a script whose second
\* triple is the error, and returned false with two logs.
C6_Witness ==
    /\ Len(execs) = 2
    /\ execs[2].alone
    /\ execs[2].pc = "resolved"
    /\ FirstError(execs[2].script) = 2
    /\ execs[2].result = "false"
    /\ simStatus = "failed"
    /\ Len(simLogs) = 2

\* C7: in the state reset leaves, the status is pending and the logs are empty.
C7_ResetYieldsPendingEmpty ==
    simLast = "reset" => simStatus = "pending" /\ simLogs = <<>>

\* C7 witness: reset was called while a call of execute that had already
\* appended an entry was waiting on its timer.
C7_Witness ==
    /\ simLast = "reset"
    /\ \E e \in 1..Len(execs) : execs[e].pc = "timer" /\ execs[e].i >= 1
    /\ simStatus = "pending"
    /\ simLogs = <<>>

\* The processes that spawn could not start.
SpawnFailures == {p \in 1..Len(procs) : procs[p].state = "error"}

\* C11 as stated: when the process of a job cannot be spawned, the job is
\* failed and ends with an error entry, it is not running, and the server is
\* not terminated.
C11_SpawnFailureFailsJob ==
    \A p \in SpawnFailures :
        LET job == heap[procs[p].job]
        IN  /\ job.status = "failed"
            /\ Last(job.logs).type = "error"
            /\ ~crashed

\* The submissions answered with 400.
Rejected == SelectSeq(responses, LAMBDA r : r.code = 400)

\* C12 as stated: a submission that lacks jobType or config leaves a job
\* record in failed status, which the answer to the submitter names.
C12_MissingInputYieldsFailedJob ==
    \A k \in 1..Len(Rejected) :
        /\ Rejected[k].jobId \in DOMAIN jobs
        /\ getStatus(Rejected[k].jobId).job.status = "failed"

\* C12, amended: a submission that lacks jobType or config is answered 400 with
\* the error text and creates no job record: every record holds a jobType and a
\* config, there is one record per accepted submission, and the rejection
\* carries no job id and no status.
C12_MissingInputRejected ==
    /\ \A o \in 1..Len(heap) : heap[o].jobType # Missing /\ heap[o].config # Missing
    /\ Len(heap) = Len(Accepted)
    /\ Len(Accepted) + Len(Rejected) = Len(responses)
    /\ \A k \in 1..Len(Rejected) :
           /\ Rejected[k].jobId = Missing
           /\ Rejected[k].status = Missing
           /\ Rejected[k].error = <<"jobType and config are required">>

\* C12 witness: a submission was rejected and the next one accepted, and the
\* registry holds the one record of the accepted submission.
C12_Witness ==
    /\ Len(responses) = 2
    /\ responses[1].code = 400
    /\ responses[2].code = 200
    /\ Len(heap) = 1
    /\ DOMAIN jobs = {responses[2].jobId}

CompleteLines(text) ==
    LET lines == SplitLines(text) IN SubSeq(lines, 1, Len(lines) - 1)

\* A text made of one or more well-formed log lines, each with its terminator.
WellFormedLines(text) ==
    /\ text # <<>>
    /\ Last(text) = "\n"
    /\ \A i \in 1..Len(CompleteLines(text)) : CompleteLines(text)[i] = <<"{", "E", "}">>

\* The processes attached to the job object o.
ProcsOf(o) == {q \in 1..Len(procs) : procs[q].job = o}

\* The accepted submissions that named the job id.
SubmissionsOf(jobId) == {k \in 1..Len(Accepted) : Accepted[k].jobId = jobId}

ErrorEntriesFor(logs, line) ==
    {k \in 1..Len(logs) :
        /\ "type" \in DOMAIN logs[k]
        /\ logs[k].type = "error"
        /\ logs[k].message \in {line, Append(line, "\n")}}

\* C15 as stated: when a process that wrote to stderr exits with a non-zero
\* code c, its job is failed, each line it wrote to stderr is the message of an
\* error-typed entry, and the last entry is the error entry naming c.
C15_StderrLinesBecomeEntries ==
    [][\A p \in 1..Len(procs) :
          (Closes(p) /\ procs'[p].exitCode # 0 /\ procs[p].errors # <<>>)
              => LET job == heap'[procs[p].job]
                     lines == CompleteLines(procs[p].errors)
                 IN  /\ job.status = "failed"
                     /\ \A i \in 1..Len(lines) : ErrorEntriesFor(job.logs, lines[i]) # {}
                     /\ Last(job.logs).type = "error"
                     /\ ToString(procs'[p].exitCode) \in Range(Last(job.logs).message)]_vars

RequestIds ==
    {<<"body", j>> : j \in SuppliedIds} \cup {uuidv4(n) : n \in 1..(Len(responses) + 1)}

\* C17: getStatus finds an id exactly when a submission under that id has been
\* accepted at any time before, whatever has happened to the job since; every
\* other id is answered not-found.
C17_RegistryNeverForgets ==
    \A id \in RequestIds :
        IF SubmissionsOf(id) # {}
        THEN getStatus(id).code = 200 /\ getStatus(id).job.id = id
        ELSE getStatus(id).code = 404

\* C17 witness: the process of a job submitted under a generated id has
\* exited, and getStatus still finds the job, while the supplied id, never
\* submitted, is not found.
C17_Witness ==
    /\ SubmissionsOf(uuidv4(1)) # {}
    /\ getStatus(uuidv4(1)).code = 200
    /\ getStatus(uuidv4(1)).job.status \in TerminalStatuses
    /\ \E p \in 1..Len(procs) : procs[p].jobId = uuidv4(1) /\ procs[p].state = "closed"
    /\ getStatus(<<"body", "j1">>).code = 404

\* C18 as stated: a job has completedAt exactly when its status is terminal;
\* startedAt, once written, does not change; and completedAt is written (by
\* the close handler, its only writer) only while it is still unset.
C18_CompletedAtMarksTerminal ==
    /\ [](\A o \in 1..Len(heap) :
              /\ heap[o].startedAt # Undefined
              /\ heap[o].status \in TerminalStatuses <=> heap[o].completedAt # Undefined)
    /\ [][\A o \in 1..Len(heap) : heap'[o].startedAt = heap[o].startedAt]_vars
    /\ [][\A p \in 1..Len(procs) :
              Closes(p) => heap[procs[p].job].completedAt = Undefined]_vars

\* The entries that have the LogEntry shape.
IsLogEntry(e) ==
    /\ DOMAIN e = {"timestamp", "type", "message"}
    /\ e.type \in {"info", "success", "warning", "error"}

\* C19 as stated: every element of the logs of every job has the LogEntry
\* shape {timestamp, type, message}, the type being info, success, warning or
\* error.
C19_LogsHoldLogEntries ==
    \A o \in 1..Len(heap) :
        \A k \in 1..Len(heap[o].logs) : IsLogEntry(heap[o].logs[k])

\* What a sequence of log entries or of triples shows: types and messages.
Shown(s) == [k \in 1..Len(s) |-> [type |-> s[k].type, message |-> s[k].message]]

\* C20 as stated: in every state the visible logs are a prefix of the input
\* sequence of one call of execute, and at most one execution is in flight.
C20_SingleFlight ==
    /\ Cardinality(InFlight) <= 1
    /\ \/ simLogs = <<>>
       \/ \E e \in 1..Len(execs) : IsPrefix(Shown(simLogs), Shown(execs[e].script))

\* C20, amended: for a call of execute made while no execution was in flight,
\* and until the next call of execute or reset, the visible logs are exactly
\* the triples of its input sequence handled so far, in order, and no other
\* execution is in flight.
C20_UndisturbedRunShowsPrefix ==
    \A e \in 1..Len(execs) :
        execs[e].alone
            => /\ Shown(simLogs) = Shown(SubSeq(execs[e].script, 1, execs[e].i))
               /\ InFlight \subseteq {e}

\* C20 witness: the second call of execute, made after the first had finished,
\* has appended two entries with nothing called in between.
C20_Witness ==
    /\ Len(execs) = 2
    /\ execs[1].i >= 1
    /\ execs[2].alone
    /\ execs[2].i = 2
    /\ Len(simLogs) = 2

\* C21: reset leaves every call of execute that waits on a timer waiting, at
\* the same place of its sequence; each such call goes on to its end; every
\* entry it handles is appended to the visible logs whatever the status shows,
\* and the step that ends it sets the status to success, or to failed on an
\* error entry, also when a reset had made it pending.
C21_ResetDoesNotCancel ==
    /\ [][simLast' = "reset" /\ Len(execs') = Len(execs)
              => \A e \in 1..Len(execs) :
                     execs'[e].pc = execs[e].pc /\ execs'[e].i = execs[e].i]_vars
    /\ [][\A e \in 1..Len(execs) :
              (Len(execs') = Len(execs) /\ execs'[e].i = execs[e].i + 1)
                  => LET log == execs[e].script[execs[e].i + 1]
                     IN  /\ Shown(simLogs') = Append(Shown(simLogs),
                                [type |-> log.type, message |-> log.message])
                         /\ execs'[e].pc = "resolved"
                                => simStatus' = IF log.type = "error"
                                                THEN "failed" ELSE "success"]_vars
    /\ \A e \in 1..MaxExecs :
           (e \in InFlight) ~> (e \in 1..Len(execs) /\ execs[e].pc = "resolved")

\* C21 witness: the one call of execute was disturbed by a reset after it had
\* appended an entry; it has since handled its whole sequence, the status is
\* success, and the logs hold only what was appended after the reset.
C21_Witness ==
    /\ Len(execs) = 1
    /\ ~execs[1].alone
    /\ execs[1].pc = "resolved"
    /\ execs[1].i = 2
    /\ simLast = "timer"
    /\ simStatus = "success"
    /\ Len(simLogs) = 1

\* C22 as stated: in the step that dispatches a callback, the record the
\* registry holds under the callback's job id already has the terminal status
\* the callback carries and has completedAt set, and the logs the callback
\* carries are those of the record and end with the entry synthesized for the
\* termination.
C22_RelayAfterFinalisation ==
    [][(Len(relays') > Len(relays) /\ Last(relays').state = "inflight")
          => LET relay == Last(relays')
                 job == heap'[jobs'[relay.jobId]]
             IN  /\ relay.status \in TerminalStatuses
                 /\ job.status = relay.status
                 /\ job.completedAt # Undefined
                 /\ relay.logs = job.logs
                 /\ Last(relay.logs).type = IF relay.status = "success"
                                            THEN "info" ELSE "error"]_vars

\* The runs of a known job type that ended on a missing script file.
ScriptlessRuns ==
    {r \in 1..Len(relays) :
        relays[r].proc = 0 /\ Last(relays[r].logs).message[1] = "Script not found: "}

\* C23: every accepted submission of a known job type is still in the
\* setImmediate queue, or ended on a missing script file, or has a process of
\* its own, however many other processes are running; and a stdout, stderr or
\* exit event of a process changes the job object of that process only, and
\* the record the registry holds under no other job id.
C23_JobsIsolatedAndUnqueued ==
    /\ [](Cardinality({o \in 1..Len(heap) : heap[o].jobType \in KnownJobTypes})
            = Cardinality({k \in 1..Len(immediates) :
                              immediates[k].jobType \in KnownJobTypes})
              + Cardinality(ScriptlessRuns) + Len(procs))
    /\ [][\A p \in 1..Len(procs) :
              procs'[p] # procs[p]
                  => /\ \A o \in 1..Len(heap) :
                            o # procs[p].job => heap'[o] = heap[o]
                     /\ \A j \in DOMAIN jobs :
                            j # procs[p].jobId => getStatus(j)' = getStatus(j)]_vars

\* C23 witness: two processes of two jobs run at once; the first has written
\* to stdout, and the record of the other job holds only what the server
\* wrote to it.
C23_Witness ==
    /\ Len(procs) = 2
    /\ procs[1].state = "running" /\ procs[2].state = "running"
    /\ procs[1].jobId # procs[2].jobId
    /\ procs[1].written # <<>>
    /\ Len(heap[procs[1].job].logs) = 3
    /\ Len(heap[procs[2].job].logs) = 2

\* C24 as stated: the job of a process that has been spawned and has not
\* exited is running, so nothing but the exit of that process makes it
\* terminal; and the step in which the process exits makes the job success or
\* failed and dispatches its callback.
C24_RunningUntilExit ==
    /\ [](\A p \in 1..Len(procs) :
              procs[p].state = "running" => heap[procs[p].job].status = "running")
    /\ [][\A p \in 1..Len(procs) :
              Closes(p) => /\ heap'[procs[p].job].status \in TerminalStatuses
                           /\ Len(relays') = Len(relays) + 1
                           /\ Last(relays').proc = p]_vars

----
\* The orchestration functions: supabase/functions/execute-script and
\* supabase/functions/job-callback, over the job_history table.

\* Requests job-callback receives in one behaviour.
MaxCallbacks == 2

\* A column that holds no value.
Null == "null"

BackendUrls == {"http://backend"}

\* The status member of a callback request.
CallbackStatuses == {"running", "success", "failed"}

\* The logs member of a callback request.
CallbackLogs == { <<LogEntry(0, "info", <<"Job started">>)>> }

\* The jobId member of a callback request: the id of the first row of the
\* table, or an id no row has.
CallbackJobIds == {1, 2}

\* What a step of the orchestration functions leaves alone.
nonOrchVars == <<regVars, simVars, pageVars, listing>>

\* The row execute-script inserts; the database generates its id.
InsertedRow(id, jobType, config) ==
    [id |-> id, job_type |-> jobType, status |-> "pending", config |-> config,
     logs |-> <<LogEntry(0, "info", <<"Job created">>)>>,
     started_at |-> Null, completed_at |-> Null]

\* execute-script, up to the insert of the row and its first branches.
ExecuteScript(authorized, jobType, config, pythonBackendUrl, insertError) ==
    /\ executeScript.pc = "idle"
    /\ IF ~authorized
       THEN /\ replies' = Append(replies, [code |-> 401, status |-> Missing])
            /\ executeScript' = [executeScript EXCEPT !.pc = "done"]
            /\ UNCHANGED job_history
       ELSE IF jobType = Missing \/ config = Missing
       THEN /\ replies' = Append(replies, [code |-> 400, status |-> Missing])
            /\ executeScript' = [executeScript EXCEPT !.pc = "done"]
            /\ UNCHANGED job_history
       ELSE IF insertError
       THEN /\ replies' = Append(replies, [code |-> 500, status |-> Missing])
            /\ executeScript' = [executeScript EXCEPT !.pc = "done"]
            /\ UNCHANGED job_history
       ELSE LET job == InsertedRow(Len(job_history) + 1, jobType, config)
            IN  /\ job_history' = Append(job_history, job)
                /\ executeScript' = [pc |-> "inserted",
                                     job |-> [id |-> job.id, logs |-> job.logs],
                                     pythonBackendUrl |-> pythonBackendUrl]
                /\ UNCHANGED replies
    /\ UNCHANGED <<forwards, callbacks>>
    /\ UNCHANGED nonOrchVars

\* A handler that writes the connecting entry and leaves the status as it is.
AfterInsertKeepingStatus ==
    /\ executeScript.pc = "inserted"
    /\ IF executeScript.pythonBackendUrl # Missing
       THEN /\ job_history' =
                   [job_history EXCEPT ![executeScript.job.id].logs =
                       Append(executeScript.job.logs,
                              LogEntry(0, "info", <<"Connecting to Python backend...">>))]
            /\ executeScript' = [executeScript EXCEPT !.pc = "updated"]
            /\ UNCHANGED replies
       ELSE /\ replies' = Append(replies, [code |-> 200, status |-> "pending"])
            /\ executeScript' = [executeScript EXCEPT !.pc = "done"]
            /\ UNCHANGED job_history
    /\ UNCHANGED <<forwards, callbacks>>
    /\ UNCHANGED nonOrchVars

\* execute-script after the insert: with a backend URL the update of the row
\* to running, without one the response that leaves the job pending.
AfterInsert ==
    /\ executeScript.pc = "inserted"
    /\ IF executeScript.pythonBackendUrl # Missing
       THEN /\ job_history' =
                   [job_history EXCEPT
                       ![executeScript.job.id].status = "running",
                       ![executeScript.job.id].started_at = Iso(0),
                       ![executeScript.job.id].logs =
                           Append(executeScript.job.logs,
                                  LogEntry(0, "info", <<"Connecting to Python backend...">>))]
            /\ executeScript' = [executeScript EXCEPT !.pc = "updated"]
            /\ UNCHANGED replies
       ELSE /\ replies' = Append(replies, [code |-> 200, status |-> "pending"])
            /\ executeScript' = [executeScript EXCEPT !.pc = "done"]
            /\ UNCHANGED job_history
    /\ UNCHANGED <<forwards, callbacks>>
    /\ UNCHANGED nonOrchVars

\* execute-script sends the request to the Job Registry: fetch(.../execute).
Forward ==
    /\ executeScript.pc = "updated"
    /\ forwards' = Append(forwards,
           [jobId |-> executeScript.job.id,
            backend |-> executeScript.pythonBackendUrl,
            callbackUrl |-> "/functions/v1/job-callback"])
    /\ executeScript' = [executeScript EXCEPT !.pc = "fetching"]
    /\ UNCHANGED <<job_history, callbacks, replies>>
    /\ UNCHANGED nonOrchVars

\* The outcomes of the fetch of the Job Registry.
ForwardOutcomes == {"2xx", "non2xx", "neterror"}

\* The row update of execute-script's two failure paths.
MarkFailed(message) ==
    [job_history EXCEPT
        ![executeScript.job.id].status = "failed",
        ![executeScript.job.id].completed_at = Iso(0),
        ![executeScript.job.id].logs =
            Append(executeScript.job.logs, LogEntry(0, "error", message))]

\* execute-script after its fetch settled.
ForwardSettles(outcome) ==
    /\ executeScript.pc = "fetching"
    /\ executeScript' = [executeScript EXCEPT !.pc = "done"]
    /\ IF outcome = "2xx"
       THEN /\ replies' = Append(replies, [code |-> 200, status |-> "running"])
            /\ UNCHANGED job_history
       ELSE /\ job_history' =
                   IF outcome = "non2xx"
                   THEN MarkFailed(<<"Python backend error: ", "errorText">>)
                   ELSE MarkFailed(<<"Failed to connect to Python backend: ", "errorMessage">>)
            /\ replies' = Append(replies, [code |-> 200, status |-> "failed"])
    /\ UNCHANGED <<forwards, callbacks>>
    /\ UNCHANGED nonOrchVars

\* job-callback, up to the select of the current row.
JobCallback(jobId, status, logs) ==
    /\ forwards # <<>>
    /\ Len(callbacks) < MaxCallbacks
    /\ callbacks' = Append(callbacks,
           IF status = Missing
           THEN [jobId |-> jobId, status |-> status, logs |-> logs, pc |-> "done",
                 code |-> 400, currentJob |-> [logs |-> <<>>, started_at |-> Null]]
           ELSE IF jobId \notin 1..Len(job_history)
           THEN [jobId |-> jobId, status |-> status, logs |-> logs, pc |-> "done",
                 code |-> 404, currentJob |-> [logs |-> <<>>, started_at |-> Null]]
           ELSE [jobId |-> jobId, status |-> status, logs |-> logs, pc |-> "fetched",
                 code |-> 0,
                 currentJob |-> [logs |-> job_history[jobId].logs,
                                 started_at |-> job_history[jobId].started_at]])
    /\ UNCHANGED <<job_history, executeScript, forwards, replies>>
    /\ UNCHANGED nonOrchVars

\* job-callback from its select to its response: the update of the row.
JobCallbackUpdate(c, updateError) ==
    /\ callbacks[c].pc = "fetched"
    /\ LET call == callbacks[c]
           updatedLogs == IF call.logs # <<>>
                          THEN call.currentJob.logs \o call.logs
                          ELSE call.currentJob.logs
           row == job_history[call.jobId]
       IN  IF updateError
           THEN /\ callbacks' = [callbacks EXCEPT ![c].pc = "done", ![c].code = 500]
                /\ UNCHANGED job_history
           ELSE /\ job_history' =
                       [job_history EXCEPT ![call.jobId] =
                           [row EXCEPT
                               !.status = call.status,
                               !.logs = updatedLogs,
                               !.started_at =
                                   IF call.status = "running" /\ call.currentJob.started_at = Null
                                   THEN Iso(0) ELSE @,
                               !.completed_at =
                                   IF call.status \in {"success", "failed"}
                                   THEN Iso(0) ELSE @]]
                /\ callbacks' = [callbacks EXCEPT ![c].pc = "done", ![c].code = 200]
    /\ UNCHANGED <<executeScript, forwards, replies>>
    /\ UNCHANGED nonOrchVars

OrchNext ==
    \/ \E authorized \in BOOLEAN, jobType \in KnownJobTypes \cup {Missing},
          config \in Configs \cup {Missing},
          pythonBackendUrl \in BackendUrls \cup {Missing}, insertError \in BOOLEAN :
          ExecuteScript(authorized, jobType, config, pythonBackendUrl, insertError)
    \/ AfterInsert
    \/ Forward
    \/ \E outcome \in ForwardOutcomes : ForwardSettles(outcome)
    \/ \E jobId \in CallbackJobIds, status \in CallbackStatuses \cup {Missing},
          logs \in CallbackLogs \cup {<<>>} : JobCallback(jobId, status, logs)
    \/ \E c \in 1..Len(callbacks), updateError \in BOOLEAN : JobCallbackUpdate(c, updateError)

OrchSpec == Init /\ [][OrchNext]_vars

----
\* The directory listing: POST /browse of public/node-backend/server.js.

\* Entries of the directory that is browsed.
MaxEntries == 3

\* The names the entries of the directory can have.
EntryNames ==
    { <<"a">>,
      <<"B">>,
      <<"b", ".", "g", "d", "b">>,
      <<"A", ".", "g", "d", "b">>,
      <<"c", ".", "s", "d", "e">> }

\* fs.Dirent: a name and what isDirectory() answers.
Dirent(name, isDirectory) == [name |-> name, isDirectory |-> isDirectory]

\* What readdirSync can return: up to MaxEntries entries of distinct names, in
\* the order the file system yields them.
Directories ==
    {d \in UNION {[1..n -> {Dirent(name, dir) : name \in EntryNames, dir \in BOOLEAN}] :
                     n \in 0..MaxEntries} :
        \A i, k \in 1..Len(d) : i # k => d[i].name # d[k].name}

\* The type member of the request.
BrowseTypes == {"gdb", "sde", "folder", Missing}

\* String.prototype.endsWith
EndsWith(s, suffix) ==
    Len(s) >= Len(suffix) /\ SubSeq(s, Len(s) - Len(suffix) + 1, Len(s)) = suffix

\* The letter a character is a case of; punctuation has none.
LowerCase(c) == CASE c = "A" -> "a" [] c = "B" -> "b" [] OTHER -> c

\* The place of a character in the collation: punctuation before the letters,
\* the letters in alphabetical order whatever their case.
Primary(c) ==
    CASE LowerCase(c) = "." -> 0
      [] LowerCase(c) = "a" -> 1
      [] LowerCase(c) = "b" -> 2
      [] LowerCase(c) = "c" -> 3
      [] LowerCase(c) = "d" -> 4
      [] LowerCase(c) = "e" -> 5
      [] LowerCase(c) = "g" -> 6
      [] LowerCase(c) = "s" -> 7

\* The case of a character: lower case sorts before upper case.
Tertiary(c) == IF LowerCase(c) = c THEN 0 ELSE 1

\* The weight of a character at a level of the collation.
Weight(level, c) == IF level = "primary" THEN Primary(c) ELSE Tertiary(c)

RECURSIVE CompareBy(_, _, _)
\* The first difference of two strings at a level of the collation:
\* negative, zero or positive; a proper prefix comes first.
CompareBy(level, s, t) ==
    IF s = <<>> /\ t = <<>> THEN 0
    ELSE IF s = <<>> THEN 0 - 1
    ELSE IF t = <<>> THEN 1
    ELSE IF Weight(level, Head(s)) # Weight(level, Head(t))
    THEN Weight(level, Head(s)) - Weight(level, Head(t))
    ELSE CompareBy(level, Tail(s), Tail(t))

\* String.prototype.localeCompare: the letters decide, and the case decides
\* between names that differ in case only.
localeCompare(s, t) ==
    IF CompareBy("primary", s, t) # 0 THEN CompareBy("primary", s, t)
    ELSE CompareBy("tertiary", s, t)

\* The kind an entry is classified as.
ItemType(item) ==
    IF EndsWith(item.name, <<".", "g", "d", "b">>) THEN "gdb"
    ELSE IF EndsWith(item.name, <<".", "s", "d", "e">>) THEN "sde"
    ELSE IF item.isDirectory THEN "folder"
    ELSE "file"

\* The entries the filter on the requested type skips.
Skipped(type, item) ==
    \/ type = "gdb" /\ ~item.isDirectory /\ ~EndsWith(item.name, <<".", "g", "d", "b">>)
    \/ type = "sde" /\ ~EndsWith(item.name, <<".", "s", "d", "e">>)
    \/ type = "folder" /\ ~item.isDirectory

\* A comparator that looks at the names only.
compareItemsByName(a, b) == localeCompare(a.name, b.name)

\* The comparator of result.sort.
compareItems(a, b) ==
    IF a.type = "folder" /\ b.type # "folder" THEN 0 - 1
    ELSE IF a.type # "folder" /\ b.type = "folder" THEN 1
    ELSE localeCompare(a.name, b.name)

RECURSIVE Insert(_, _)
\* item put into the sorted sequence s, after the elements that are not
\* greater than it.
Insert(s, item) ==
    IF s = <<>> THEN <<item>>
    ELSE IF compareItems(item, Head(s)) < 0 THEN <<item>> \o s
    ELSE <<Head(s)>> \o Insert(Tail(s), item)

RECURSIVE Sort(_)
\* Array.prototype.sort with the comparator: a stable sort.
Sort(s) == IF s = <<>> THEN <<>> ELSE Insert(Sort(SubSeq(s, 1, Len(s) - 1)), s[Len(s)])

\* The result array before the sort: the entries kept, classified.
Classified(type, dirents) ==
    LET kept == SelectSeq(dirents, LAMBDA item : ~Skipped(type, item))
    IN  [k \in 1..Len(kept) |->
            [name |-> kept[k].name, path |-> <<"/">> \o kept[k].name,
             type |-> ItemType(kept[k])]]

\* POST /browse, on a directory that can be read or cannot.
Browse(type, dirents, readable) ==
    /\ listing.code = 0
    /\ listing' = IF readable
                  THEN [code |-> 200, type |-> type, dirents |-> dirents,
                        items |-> Sort(Classified(type, dirents))]
                  ELSE [code |-> 400, type |-> type, dirents |-> <<>>, items |-> <<>>]
    /\ UNCHANGED <<regVars, simVars, pageVars, orchVars>>

BrowseNext ==
    \E type \in BrowseTypes, dirents \in Directories, readable \in BOOLEAN :
        Browse(type, dirents, readable)

BrowseSpec == Init /\ [][BrowseNext]_vars

\* The entry of the browsed directory that an item of the response names is a
\* directory.
IsDirectory(item) ==
    \E k \in 1..Len(listing.dirents) :
        listing.dirents[k].name = item.name /\ listing.dirents[k].isDirectory

\* The items of the response are the entries kept by the filter, each once.
ListsKeptEntries ==
    /\ Len(listing.items) = Len(Classified(listing.type, listing.dirents))
    /\ Range(listing.items) = Range(Classified(listing.type, listing.dirents))

\* C26 as stated: in every listing no item that is not a directory precedes a
\* directory, directories whose name ends in .gdb included, and two
\* directories, or two non-directories, are in the order of their names.
C26_DirectoriesFirst ==
    listing.code = 200
        => /\ ListsKeptEntries
           /\ \A i, k \in 1..Len(listing.items) :
                  i < k => LET a == listing.items[i]
                               b == listing.items[k]
                           IN  /\ IsDirectory(a) \/ ~IsDirectory(b)
                               /\ IsDirectory(a) = IsDirectory(b)
                                      => localeCompare(a.name, b.name) < 0

\* C26, amended: in every listing no item of another kind precedes an item of
\* kind folder, and two items of kind folder, or two items of other kinds, are
\* in the order localeCompare gives their names; a directory whose name ends
\* in .gdb or .sde has kind gdb or sde and is placed among the other kinds.
C26_FoldersFirstThenByName ==
    listing.code = 200
        => /\ ListsKeptEntries
           /\ \A i, k \in 1..Len(listing.items) :
                  i < k => LET a == listing.items[i]
                               b == listing.items[k]
                           IN  /\ a.type = "folder" \/ b.type # "folder"
                               /\ (a.type = "folder") = (b.type = "folder")
                                      => localeCompare(a.name, b.name) < 0
           /\ \A i \in 1..Len(listing.items) :
                  listing.items[i].type = "folder"
                      <=> /\ IsDirectory(listing.items[i])
                          /\ ~EndsWith(listing.items[i].name, <<".", "g", "d", "b">>)
                          /\ ~EndsWith(listing.items[i].name, <<".", "s", "d", "e">>)

\* C26 witness: a listing of three entries that readdir yielded in another
\* order: a folder, then a file, then a directory whose name ends in .gdb.
C26_Witness ==
    /\ listing.code = 200
    /\ Len(listing.items) = 3
    /\ listing.items # Classified(listing.type, listing.dirents)
    /\ listing.items[1].type = "folder"
    /\ listing.items[2].type = "file"
    /\ listing.items[3].type = "gdb" /\ IsDirectory(listing.items[3])

\* C27 as stated: every step of execute-script and job-callback that writes a
\* row of job_history keeps the logs the row held before as a prefix of its
\* new logs.
C27_PersistedLogsAppendOnly ==
    [][\A id \in 1..Len(job_history) :
          IsPrefix(job_history[id].logs, job_history'[id].logs)]_vars

\* C28 as stated: a row of job_history whose status is success or failed
\* keeps that status in every later step.
C28_PersistedTerminalIsFinal ==
    [][\A id \in 1..Len(job_history) :
          job_history[id].status \in TerminalStatuses
              => job_history'[id].status = job_history[id].status]_vars

\* C29 as stated: a stdout or stderr event of a process whose job is success
\* or failed appends nothing to the logs of that job.
C29_LogsFrozenAtTermination ==
    [][\A p \in 1..Len(procs) :
          (/\ heap[procs[p].job].status \in TerminalStatuses
           /\ \/ procs'[p].written # procs[p].written
              \/ procs'[p].errors # procs[p].errors)
              => heap'[procs[p].job].logs = heap[procs[p].job].logs]_vars

----
\* The GDB Extraction page (the SDE Conversion and Comparison pages have the
\* same handlers and the same buttons).

\* simulatedLogs of the page, cut to its first and its last entry.
simulatedLogs ==
    <<Triple("info", "Initializing GDB extraction process...", 300),
      Triple("success", "Extraction complete! 5 files created.", 300)>>

\* What the user can type into a path input.
PathInputs == {"", "C:\\Data\\a.gdb"}

\* onChange of a path input: setConfig({...config, [field]: value}).
setConfig(field, value) ==
    /\ pageConfig[field] # value
    /\ pageConfig' = [pageConfig EXCEPT ![field] = value]
    /\ UNCHANGED <<regVars, simVars, results, orchVars, listing>>

\* handleExecute up to its await: nothing without both paths, else clear the
\* results and call execute(simulatedLogs).
handleExecute ==
    /\ ~(pageConfig.sourceGdbPath = "" \/ pageConfig.outputFolder = "")
    /\ results' = "empty"
    /\ execute(simulatedLogs)
    /\ UNCHANGED pageConfig

\* A timer of the simulator fires; when that resolves the promise of the
\* call with true, handleExecute goes on and sets the mock results.
handleExecuteResumes(e) ==
    /\ TimerFires(e)
    /\ results' = IF execs'[e].pc = "resolved" /\ execs'[e].result = "true"
                  THEN "mock" ELSE results
    /\ UNCHANGED pageConfig

\* handleReset: reset(); setResults([]).
handleReset ==
    /\ reset
    /\ results' = "empty"
    /\ UNCHANGED pageConfig

\* The Execute button: disabled while running or while a path is missing.
ExecuteButton ==
    /\ ~(simStatus = "running" \/ pageConfig.sourceGdbPath = ""
                               \/ pageConfig.outputFolder = "")
    /\ handleExecute

\* The Reset button: disabled while running.
ResetButton ==
    /\ ~(simStatus = "running")
    /\ handleReset

\* The clear button of ConsolePanel: onClick={onClear}, never disabled, and
\* the page passes handleReset as onClear.
ClearButton == handleReset

PageNext ==
    \/ \E field \in {"sourceGdbPath", "outputFolder"} :
          \E value \in PathInputs : setConfig(field, value)
    \/ ExecuteButton
    \/ ResetButton
    \/ ClearButton
    \/ \E e \in 1..Len(execs) : handleExecuteResumes(e)

PageSpec == Init /\ [][PageNext]_vars

\* C30 as stated: through any sequence of clicks on the three buttons, no call
\* of execute starts while an earlier one is in flight, and no entry is
\* appended to the logs while the status is pending.
C30_PageSingleFlight ==
    [][/\ Cardinality(InFlight') <= 1
       /\ simStatus = "pending" => IsPrefix(simLogs', simLogs)]_vars

====
